---- MODULE Spec2Model ----
(***************************************************************************)
(* Model of the batch text-watermark tool (src/app.py): the font resolver, *)
(* the placement calculator, the tiling loop, the batch pipeline           *)
(* (process_images), the archive packager (create_zip_file) and the two    *)
(* callers that turn the widget values into engine arguments (main and     *)
(* update_preview).                                                        *)
(*                                                                         *)
(* Python strings are modelled as sequences of one-character strings, a    *)
(* missing argument (None) as the string "None", and a Python float as a   *)
(* pair [m, e] standing for m * 2^e with m held as a little-endian         *)
(* sequence of bits (binary64: 53 significant bits, round half to even).   *)
(***************************************************************************)
EXTENDS Integers, Sequences, FiniteSets, TLC

\* ------------------------------------------------------------------------
\* Bounds of the model
\* ------------------------------------------------------------------------
MaxCanvas == 4
MaxLayer == 3
MaxFiles == 3

None == "None"
\* density=None, an integer-typed argument left out
NoDensity == -1

\* ------------------------------------------------------------------------
\* binary64 arithmetic, as far as the program uses it:
\*   int / int, int * float, float * 1.5, int(float)
\* ------------------------------------------------------------------------
MantissaBits == 53
ScaleBits == 70
LimbBits == 15
LimbBase == 2 ^ LimbBits

RECURSIVE ToBits(_)
ToBits(n) == IF n = 0 THEN <<>> ELSE <<n % 2>> \o ToBits(n \div 2)

RECURSIVE FromBits(_)
FromBits(b) == IF b = <<>> THEN 0 ELSE Head(b) + 2 * FromBits(Tail(b))

\* drop the leading (most significant) zero bits
Strip(b) ==
    LET ones == {i \in 1..Len(b) : b[i] = 1}
    IN  IF ones = {} THEN <<>>
        ELSE SubSeq(b, 1, CHOOSE i \in ones : \A j \in ones : j <= i)

\* A long natural number is a little-endian sequence of bits; the carry and
\* remainder chains run over its limbs of LimbBits bits.
Limbs(b) ==
    [j \in 1..((Len(b) + LimbBits - 1) \div LimbBits) |->
        FromBits(SubSeq(b, LimbBits * (j - 1) + 1,
                        IF LimbBits * j <= Len(b) THEN LimbBits * j
                        ELSE Len(b)))]

LimbToBits(v) ==
    LET t == ToBits(v) IN t \o [i \in 1..(LimbBits - Len(t)) |-> 0]

RECURSIVE LimbsToBits(_)
LimbsToBits(a) ==
    IF a = <<>> THEN <<>> ELSE LimbToBits(Head(a)) \o LimbsToBits(Tail(a))

\* a * n + c over the limbs of a
RECURSIVE MulCarry(_, _, _)
MulCarry(a, n, c) ==
    IF a = <<>> THEN IF c = 0 THEN <<>> ELSE MulCarry(<<0>>, n, c)
    ELSE <<(Head(a) * n + c) % LimbBase>>
         \o MulCarry(Tail(a), n, (Head(a) * n + c) \div LimbBase)

MulSmall(b, n) == Strip(LimbsToBits(MulCarry(Limbs(b), n, 0)))

\* long division of the limbs a (most significant limb last) by n
RECURSIVE DivRem(_, _)
DivRem(a, n) ==
    IF a = <<>> THEN [q |-> <<>>, r |-> 0]
    ELSE LET hi  == DivRem(Tail(a), n)
             cur == hi.r * LimbBase + Head(a)
         IN  [q |-> <<cur \div n>> \o hi.q, r |-> cur % n]

ShiftLeft(b, k) == IF b = <<>> THEN <<>> ELSE [i \in 1..k |-> 0] \o b

Increment(b) == Strip(LimbsToBits(MulCarry(Limbs(b), 1, 1)))

\* Round the exact value (b + fraction) * 2^e to 53 significant bits, ties to
\* even; sticky says that the fraction below b is not zero.
RoundNearestEven(b, e, sticky) ==
    LET L == Len(b)
        k == L - MantissaBits
    IN  IF k <= 0 THEN [m |-> b, e |-> e]
        ELSE LET low   == SubSeq(b, 1, k)
                 hi    == SubSeq(b, k + 1, L)
                 guard == low[k] = 1
                 rest  == sticky \/ \E i \in 1..(k - 1) : low[i] = 1
                 up    == guard /\ (rest \/ hi[1] = 1)
             IN  [m |-> IF up THEN Increment(hi) ELSE hi, e |-> e + k]

\* n / d for Python ints: the correctly rounded quotient.
FloatDiv(n, d) ==
    LET qr == DivRem(Limbs(ShiftLeft(ToBits(n), ScaleBits)), d)
    IN  RoundNearestEven(Strip(LimbsToBits(qr.q)), 0 - ScaleBits, qr.r # 0)

\* n * f for a Python int n (exact as a float) and a float f.
FloatMulInt(f, n) == RoundNearestEven(MulSmall(f.m, n), f.e, FALSE)

\* f * 1.5, 1.5 being 3 * 2^-1
FloatMulOneAndHalf(f) == RoundNearestEven(MulSmall(f.m, 3), f.e - 1, FALSE)

\* int(f) for f >= 0: truncation
FloatToInt(f) ==
    IF f.e >= 0 THEN FromBits(ShiftLeft(f.m, f.e))
    ELSE IF 0 - f.e >= Len(f.m) THEN 0
    ELSE FromBits(SubSeq(f.m, 1 - f.e, Len(f.m)))

\* ------------------------------------------------------------------------
\* State
\* ------------------------------------------------------------------------
VARIABLES
    \* add_watermark / add_single_watermark / add_tiled_watermark
    pc,             \* position in the watermark functions
    mode,           \* "single" (the single-watermark mode) or "tiled"
    position_key,
    density,
    font_size,
    img_width, img_height,
    text_width, text_height,
    spacing_x, spacing_y,
    x, y,
    pastes,         \* the (x, y) of every paste made so far, in order
    image_mode,     \* image.mode of the picture handed in
    work_mode,      \* img_with_watermark.mode, None before the copy is made
    result_mode,    \* mode of the picture returned, None before the return
    \* main / update_preview / process_images / create_zip_file
    bpc,            \* position in the script
    ui,             \* the widget values of this script run
    original_image, \* st.session_state.original_image: "image" or None
    uploaded_files, \* sequence of [name, data]
    args,           \* the arguments handed to the watermark engine
    idx,            \* enumerate index of process_images (0-based)
    image,          \* the picture being processed: [mode, loaded]
    processed_images, \* dict, in insertion order: sequence of [name, image]
    errors,         \* the st.error calls so far: sequence of [kind, name]
    progress,       \* the status_text events so far: [index, total, name]
    progress_bar,   \* <<n, d>>: the bar shows n / d
    consumed,       \* 1-based positions of the files read so far
    zip_entries,    \* the archive: sequence of [name, format]
    \* load_font
    lf_pc,          \* position in load_font
    font_path,      \* the argument: a path, "" or None
    fs_exists,      \* the paths os.path.exists finds
    fs_loadable,    \* the paths ImageFont.truetype loads without raising
    path_index,     \* position of the loop in font_paths (1-based)
    font            \* the local font: a loaded path, "default" or None

batchVars == <<bpc, ui, original_image, uploaded_files, args, idx, image,
               processed_images, errors, progress, progress_bar, consumed,
               zip_entries>>

markVars == <<pc, mode, position_key, density, font_size, img_width,
              img_height, text_width, text_height, spacing_x, spacing_y,
              x, y, pastes, image_mode, work_mode, result_mode>>

fontVars == <<lf_pc, font_path, fs_exists, fs_loadable, path_index, font>>

vars == <<markVars, batchVars, fontVars>>

Max(a, b) == IF a >= b THEN a ELSE b
Min(a, b) == IF a <= b THEN a ELSE b

\* ------------------------------------------------------------------------
\* calculate_position
\* ------------------------------------------------------------------------
padding == 20

\* the fallback branch taking the top-left corner
calculate_position_fallback_top_left(iw, ih, tw, th, key) ==
    IF key = "bottom_right" THEN <<iw - tw - padding, ih - th - padding>>
    ELSE IF key = "bottom_left" THEN <<padding, ih - th - padding>>
    ELSE IF key = "top_right" THEN <<iw - tw - padding, padding>>
    ELSE IF key = "top_left" THEN <<padding, padding>>
    ELSE IF key = "center" THEN <<(iw - tw) \div 2, (ih - th) \div 2>>
    ELSE <<padding, padding>>

calculate_position(iw, ih, tw, th, key) ==
    IF key = "bottom_right" THEN <<iw - tw - padding, ih - th - padding>>
    ELSE IF key = "bottom_left" THEN <<padding, ih - th - padding>>
    ELSE IF key = "top_right" THEN <<iw - tw - padding, padding>>
    ELSE IF key = "top_left" THEN <<padding, padding>>
    ELSE IF key = "center" THEN <<(iw - tw) \div 2, (ih - th) \div 2>>
    ELSE <<iw - tw - padding, ih - th - padding>>

\* ------------------------------------------------------------------------
\* add_watermark and the two placement routines
\* ------------------------------------------------------------------------
Anchors == {"bottom_right", "bottom_left", "top_right", "top_left", "center"}
PositionKeys == Anchors \cup {None, "middle"}

\* Pillow modes of the picture handed in, and those with an alpha channel
SourceModes == {"RGB", "RGBA", "L", "LA"}
AlphaModes == {"RGBA", "LA"}

SmallDims == 1..MaxCanvas
WideDims == {2 * padding + d : d \in 0..MaxCanvas}
LayerDims == 1..MaxLayer

\* (font_size, density) pairs of the tiled runs on small canvases
SmallTilings == {<<0, 200>>, <<1, 100>>, <<1, 200>>, <<2, 100>>, <<2, 200>>,
                 <<1, NoDensity>>}

\* Full-size runs: <<img_width, img_height, text_width, text_height>>
SingleExamples == {<<1000, 800, 200, 50>>, <<1000, 800, 1200, 900>>}
\* <<img_width, img_height, text_width, text_height, font_size, density>>
TiledExamples == {<<1000, 800, 40, 20, 50, 400>>,
                  <<600, 400, 40, 20, 25, 232>>,
                  <<300, 200, 40, 20, 10, 200>>}

InitSingle ==
    /\ mode = "single"
    /\ position_key \in PositionKeys
    /\ density = NoDensity
    /\ font_size = 50
    /\ \/ /\ img_width \in SmallDims \cup WideDims
          /\ img_height \in SmallDims \cup WideDims
          /\ text_width \in LayerDims
          /\ text_height \in LayerDims
       \/ \E e \in SingleExamples :
            /\ img_width = e[1] /\ img_height = e[2]
            /\ text_width = e[3] /\ text_height = e[4]

InitTiled ==
    /\ mode = "tiled"
    /\ position_key = None
    /\ \/ /\ img_width \in SmallDims
          /\ img_height \in SmallDims
          /\ text_width \in LayerDims
          /\ text_height \in LayerDims
          /\ \E t \in SmallTilings : font_size = t[1] /\ density = t[2]
       \/ \E e \in TiledExamples :
            /\ img_width = e[1] /\ img_height = e[2]
            /\ text_width = e[3] /\ text_height = e[4]
            /\ font_size = e[5] /\ density = e[6]

NoImage == [mode |-> None, loaded |-> FALSE]
NoArgs == [mode |-> None, position_key |-> None, density |-> NoDensity,
           font_size |-> 0, opacity_value |-> 0, rotation_angle |-> 0]
NoUi == [watermark_mode |-> None, watermark_text |-> None, opacity |-> 0,
         rotation_angle |-> 0, position |-> None, density |-> NoDensity,
         font_size |-> 0, clicked |-> FALSE]

\* the script is not running
IdleBatch ==
    /\ bpc = "idle"
    /\ ui = NoUi
    /\ original_image = None
    /\ uploaded_files = <<>>
    /\ args = NoArgs
    /\ idx = 0
    /\ image = NoImage
    /\ processed_images = <<>>
    /\ errors = <<>>
    /\ progress = <<>>
    /\ progress_bar = <<0, 1>>
    /\ consumed = {}
    /\ zip_entries = <<>>

\* load_font is not running
IdleFont ==
    /\ lf_pc = "idle"
    /\ font_path = None
    /\ fs_exists = {}
    /\ fs_loadable = {}
    /\ path_index = 0
    /\ font = None

\* the watermark functions are not running
IdleMark ==
    /\ pc = "idle"
    /\ mode = None /\ position_key = None /\ density = NoDensity
    /\ font_size = 0
    /\ img_width = 0 /\ img_height = 0 /\ text_width = 0 /\ text_height = 0
    /\ spacing_x = 0 /\ spacing_y = 0
    /\ x = 0 /\ y = 0
    /\ pastes = <<>>
    /\ image_mode = None /\ work_mode = None /\ result_mode = None

InitMark ==
    /\ IdleBatch
    /\ IdleFont
    /\ pc = "add_watermark"
    /\ spacing_x = 0 /\ spacing_y = 0
    /\ x = 0 /\ y = 0
    /\ pastes = <<>>
    /\ image_mode \in SourceModes
    /\ work_mode = None /\ result_mode = None
    /\ (InitSingle \/ InitTiled)

markInputs == <<mode, position_key, density, font_size, img_width,
                img_height, text_width, text_height, image_mode>>

\* add_watermark: dispatch on the mode
Dispatch ==
    /\ pc = "add_watermark"
    /\ pc' = IF mode = "single" THEN "copy_single" ELSE "copy_tiled"
    /\ UNCHANGED <<markInputs, spacing_x, spacing_y, x, y, pastes>>
    /\ UNCHANGED <<work_mode, result_mode, batchVars, fontVars>>

\* image.convert('RGBA') or image.copy(): the working picture is RGBA
drawable_mode(m) == IF m # "RGBA" THEN "RGBA" ELSE m

\* add_single_watermark / add_tiled_watermark: the drawable copy
DrawableCopy ==
    /\ pc \in {"copy_single", "copy_tiled"}
    /\ work_mode' = drawable_mode(image_mode)
    /\ pc' = IF pc = "copy_single" THEN "calculate_position" ELSE "spacing"
    /\ UNCHANGED <<markInputs, spacing_x, spacing_y, x, y, pastes, result_mode>>
    /\ UNCHANGED <<batchVars, fontVars>>

\* add_single_watermark: x, y = calculate_position(...)
CalculatePosition ==
    /\ pc = "calculate_position"
    /\ LET p == calculate_position(img_width, img_height, text_width,
                                   text_height, position_key)
       IN  x' = p[1] /\ y' = p[2]
    /\ pc' = "clamp"
    /\ UNCHANGED <<markInputs, spacing_x, spacing_y, pastes>>
    /\ UNCHANGED <<work_mode, result_mode, batchVars, fontVars>>

\* the clamp without its lower bound
ClampX_upper_only(px, iw, tw) == Min(px, iw - tw)

ClampX(px, iw, tw) == Max(0, Min(px, iw - tw))

\* add_single_watermark: keep the coordinates inside the picture
Clamp ==
    /\ pc = "clamp"
    /\ x' = ClampX(x, img_width, text_width)
    /\ y' = ClampX(y, img_height, text_height)
    /\ pc' = "paste"
    /\ UNCHANGED <<markInputs, spacing_x, spacing_y, pastes>>
    /\ UNCHANGED <<work_mode, result_mode, batchVars, fontVars>>

\* add_single_watermark: paste the text picture
PasteSingle ==
    /\ pc = "paste"
    /\ pastes' = Append(pastes, <<x, y>>)
    /\ pc' = "return"
    /\ UNCHANGED <<markInputs, spacing_x, spacing_y, x, y>>
    /\ UNCHANGED <<work_mode, result_mode, batchVars, fontVars>>

\* int(font_size * (density / 100) * 1.5)
Spacing(fs, d) ==
    FloatToInt(FloatMulOneAndHalf(FloatMulInt(FloatDiv(d, 100), fs)))

\* add_tiled_watermark: the two spacings, then y = 0
ComputeSpacing ==
    /\ pc = "spacing"
    /\ IF density = NoDensity
       THEN /\ pc' = "raised"            \* None / 100: TypeError
            /\ UNCHANGED <<spacing_x, spacing_y, y>>
       ELSE /\ spacing_x' = Spacing(font_size, density)
            /\ spacing_y' = Spacing(font_size, density)
            /\ y' = 0
            /\ pc' = "row"
    /\ UNCHANGED <<markInputs, x, pastes>>
    /\ UNCHANGED <<work_mode, result_mode, batchVars, fontVars>>

\* odd rows shifted to the right instead of to the left
row_offset_to_the_right(yy, sx, sy) ==
    IF (yy \div sy) % 2 = 1 THEN 0 - (sx \div 2) ELSE 0

row_offset(yy, sx, sy) == IF (yy \div sy) % 2 = 1 THEN sx \div 2 ELSE 0

\* add_tiled_watermark: the outer loop's test and the start of a row
RowStart ==
    /\ pc = "row"
    /\ IF y < img_height + text_height
       THEN IF spacing_y = 0
            THEN /\ pc' = "raised"       \* y // 0: ZeroDivisionError
                 /\ UNCHANGED x
            ELSE /\ x' = 0 - row_offset(y, spacing_x, spacing_y)
                 /\ pc' = "tile"
       ELSE /\ pc' = "return"
            /\ UNCHANGED x
    /\ UNCHANGED <<markInputs, spacing_x, spacing_y, y, pastes>>
    /\ UNCHANGED <<work_mode, result_mode, batchVars, fontVars>>

\* add_tiled_watermark: one pass of the inner loop
PasteTile ==
    /\ pc = "tile"
    /\ x < img_width + text_width
    /\ pastes' = Append(pastes, <<x, y>>)
    /\ x' = x + spacing_x
    /\ UNCHANGED <<markInputs, spacing_x, spacing_y, y, pc>>
    /\ UNCHANGED <<work_mode, result_mode, batchVars, fontVars>>

\* the outer loop stepping over every other row
RowEnd_every_other_row ==
    /\ pc = "tile"
    /\ ~(x < img_width + text_width)
    /\ y' = y + 2 * spacing_y
    /\ pc' = "row"
    /\ UNCHANGED <<markInputs, spacing_x, spacing_y, x, pastes>>
    /\ UNCHANGED <<work_mode, result_mode, batchVars, fontVars>>

\* add_tiled_watermark: the inner loop ends, y += spacing_y
RowEnd ==
    /\ pc = "tile"
    /\ ~(x < img_width + text_width)
    /\ y' = y + spacing_y
    /\ pc' = "row"
    /\ UNCHANGED <<markInputs, spacing_x, spacing_y, x, pastes>>
    /\ UNCHANGED <<work_mode, result_mode, batchVars, fontVars>>

\* the flattening applied to every picture that had no alpha channel
returned_mode_flatten_without_alpha(m, w) == IF m \notin AlphaModes THEN "RGB" ELSE w

\* if image.mode == 'RGB': paste onto a white RGB picture, else as it is
returned_mode(m, w) == IF m = "RGB" THEN "RGB" ELSE w

\* add_single_watermark / add_tiled_watermark: back to RGB, and return
Return ==
    /\ pc = "return"
    /\ result_mode' = returned_mode(image_mode, work_mode)
    /\ pc' = "returned"
    /\ UNCHANGED <<markInputs, spacing_x, spacing_y, x, y, pastes, work_mode>>
    /\ UNCHANGED <<batchVars, fontVars>>

NextMark ==
    \/ Dispatch
    \/ DrawableCopy
    \/ Return
    \/ CalculatePosition
    \/ Clamp
    \/ PasteSingle
    \/ ComputeSpacing
    \/ RowStart
    \/ PasteTile
    \/ RowEnd

SpecMark == InitMark /\ [][NextMark]_vars

\* ------------------------------------------------------------------------
\* Placement (calculate_position, add_single_watermark)
\* ------------------------------------------------------------------------

\* C3: calculate_position returns, with padding 20, bottom_right =
\* (W - w - 20, H - h - 20), bottom_left = (20, H - h - 20), top_right =
\* (W - w - 20, 20), top_left = (20, 20), center = (floor((W - w) / 2),
\* floor((H - h) / 2)); any other key, a missing one included, gives the
\* bottom_right result; (1000, 800, 200, 50) gives (780, 730) for
\* bottom_right and (400, 375) for center.
C3_PositionTable ==
    pc = "clamp" =>
        /\ position_key = "bottom_right" =>
              x = img_width - text_width - 20 /\ y = img_height - text_height - 20
        /\ position_key = "bottom_left" =>
              x = 20 /\ y = img_height - text_height - 20
        /\ position_key = "top_right" =>
              x = img_width - text_width - 20 /\ y = 20
        /\ position_key = "top_left" => x = 20 /\ y = 20
        /\ position_key = "center" =>
              /\ 2 * x <= img_width - text_width
              /\ img_width - text_width <= 2 * x + 1
              /\ 2 * y <= img_height - text_height
              /\ img_height - text_height <= 2 * y + 1
        /\ position_key \notin Anchors =>
              x = img_width - text_width - 20 /\ y = img_height - text_height - 20
        /\ <<img_width, img_height, text_width, text_height>>
                = <<1000, 800, 200, 50>> =>
              /\ position_key = "bottom_right" => <<x, y>> = <<780, 730>>
              /\ position_key = "center" => <<x, y>> = <<400, 375>>

C3_Witness ==
    /\ pc = "clamp"
    /\ position_key = None
    /\ <<img_width, img_height, text_width, text_height>> = <<1000, 800, 200, 50>>
    /\ <<x, y>> = <<780, 730>>

\* C2 as stated: in single mode the pasted coordinates satisfy
\* 0 <= x <= W - w and 0 <= y <= H - h for every canvas and layer size,
\* layers larger than the canvas included.
C2_InsideForEverySize ==
    (mode = "single" /\ pc \in {"paste", "return"}) =>
        /\ 0 <= x /\ x <= img_width - text_width
        /\ 0 <= y /\ y <= img_height - text_height

\* C2, amended: in single mode the pasted coordinates satisfy
\* 0 <= x <= max(0, W - w) and 0 <= y <= max(0, H - h): on an axis where the
\* layer fits the canvas the layer stays inside it, and on an axis where the
\* layer is larger than the canvas it is pasted at 0.
C2_ClampedOrAtOrigin ==
    (mode = "single" /\ pc \in {"paste", "return"}) =>
        /\ 0 <= x /\ 0 <= y
        /\ text_width <= img_width => x + text_width <= img_width
        /\ text_width > img_width => x = 0
        /\ text_height <= img_height => y + text_height <= img_height
        /\ text_height > img_height => y = 0
        /\ pc = "return" => pastes = <<(<<x, y>>)>>

C2_Witness ==
    /\ mode = "single" /\ pc = "return"
    /\ text_width > img_width
    /\ text_height <= img_height
    /\ pastes = <<(<<0, img_height - text_height - 20>>)>>
    /\ y > 0

\* ------------------------------------------------------------------------
\* Tiling (add_tiled_watermark)
\* ------------------------------------------------------------------------
Covered(px, py) ==
    \E i \in 1..Len(pastes) :
        /\ pastes[i][1] <= px /\ px < pastes[i][1] + text_width
        /\ pastes[i][2] <= py /\ py < pastes[i][2] + text_height

CanvasCovered ==
    \A px \in 0..(img_width - 1) : \A py \in 0..(img_height - 1) : Covered(px, py)

\* C4 as stated: whenever spacing > 0 the pasted layer rectangles together
\* contain every pixel of the canvas.
C4_CoverageForEverySpacing ==
    (mode = "tiled" /\ pc = "return" /\ spacing_x > 0 /\ spacing_y > 0) =>
        CanvasCovered

\* C4, amended: whenever spacing > 0 and the layer is at least one spacing
\* wide and one spacing high, the pasted layer rectangles together contain
\* every pixel of the canvas.
C4_CoverageWhenLayerSpansSpacing ==
    (/\ mode = "tiled" /\ pc = "return"
     /\ spacing_x > 0 /\ spacing_y > 0
     /\ text_width >= spacing_x /\ text_height >= spacing_y) =>
        CanvasCovered

C4_Witness ==
    /\ mode = "tiled" /\ pc = "return"
    /\ spacing_x = 3 /\ spacing_y = 3
    /\ text_width = 3 /\ text_height = 3
    /\ img_width = MaxCanvas /\ img_height = MaxCanvas
    /\ Len(pastes) > 4
    /\ CanvasCovered

\* C5: both spacings equal floor(fontSize * density * 1.5 / 100); rows lie
\* at y = k * spacing; an even row starts at x = 0 and an odd row at
\* x = -floor(spacing / 2); successive tiles of a row are one spacing
\* apart; fontSize 50 and density 400 give spacing 300, row 0 starting at 0
\* and row 1 (y = 300) at -150.
RowOf(i) == pastes[i][2] \div spacing_y
FirstOfRow(i) == i = 1 \/ pastes[i - 1][2] # pastes[i][2]

C5_BrickLayout ==
    (mode = "tiled" /\ pc \in {"row", "tile", "return"}) =>
        /\ spacing_x = (font_size * density * 3) \div 200
        /\ spacing_y = (font_size * density * 3) \div 200
        /\ \A i \in 1..Len(pastes) :
              /\ pastes[i][2] = RowOf(i) * spacing_y
              /\ FirstOfRow(i) =>
                    pastes[i][1] = IF RowOf(i) % 2 = 0 THEN 0
                                   ELSE 0 - (spacing_x \div 2)
              /\ ~FirstOfRow(i) => pastes[i][1] = pastes[i - 1][1] + spacing_x
        /\ (font_size = 50 /\ density = 400) =>
              /\ spacing_x = 300
              /\ \A i \in 1..Len(pastes) :
                    FirstOfRow(i) =>
                        /\ pastes[i][2] = 0 => pastes[i][1] = 0
                        /\ pastes[i][2] = 300 => pastes[i][1] = 0 - 150

\* ------------------------------------------------------------------------
\* The tiling loop on its own, every step of it taken in the end
\* ------------------------------------------------------------------------
\* the sliders of the tiled mode: font size and density
FontSizeRange == 10..200
DensityRange == 200..1000
\* the densities of the runs over the whole font size range
DensityStep == 5
DensitySamples == {d \in DensityRange : (d - 200) % DensityStep = 0}

InitTiling ==
    /\ IdleBatch
    /\ IdleFont
    /\ pc = "add_watermark"
    /\ spacing_x = 0 /\ spacing_y = 0
    /\ x = 0 /\ y = 0
    /\ pastes = <<>>
    /\ image_mode = "RGB"
    /\ work_mode = None /\ result_mode = None
    /\ mode = "tiled"
    /\ position_key = None
    /\ \/ InitTiled
       \/ /\ img_width = 1 /\ img_height = 1
          /\ text_width = 1 /\ text_height = 1
          /\ font_size \in FontSizeRange
          /\ density \in DensitySamples

NextTiling ==
    \/ Dispatch
    \/ DrawableCopy
    \/ ComputeSpacing
    \/ RowStart
    \/ PasteTile
    \/ RowEnd
    \/ Return

\* the steps of the two loops and the return: once the loop has started,
\* the interpreter goes on taking them
TilingLoop == RowStart \/ PasteTile \/ RowEnd \/ Return

SpecTiling == InitTiling /\ [][NextTiling]_vars /\ WF_vars(TilingLoop)

\* the rows and the tiles the loop bounds allow: row k lies at k * spacing_y
\* and its tile j at start + j * spacing_x
RowStartX(k) == IF k % 2 = 1 THEN 0 - (spacing_x \div 2) ELSE 0
RowsAllowed == {k \in 0..((img_height + text_height) \div spacing_y) :
                    k * spacing_y < img_height + text_height}
TilesAllowed(k) ==
    {j \in 0..((img_width + text_width + spacing_x) \div spacing_x) :
        RowStartX(k) + j * spacing_x < img_width + text_width}
Pasted == {pastes[i] : i \in 1..Len(pastes)}
TilingRuns == mode = "tiled" /\ pc = "row" /\ spacing_x > 0 /\ spacing_y > 0

\* every placement made so far lies inside the bounds of the two loops
PlacementsInBounds ==
    \A i \in 1..Len(pastes) :
        /\ 0 <= pastes[i][2]
        /\ pastes[i][2] < img_height + text_height
        /\ 0 - (spacing_x \div 2) <= pastes[i][1]
        /\ pastes[i][1] < img_width + text_width

\* once the loops have ended, every placement inside the bounds was made,
\* and each one once
NoPlacementSkipped ==
    /\ \A k \in RowsAllowed : \A j \in TilesAllowed(k) :
          <<RowStartX(k) + j * spacing_x, k * spacing_y>> \in Pasted
    /\ Cardinality(Pasted) = Len(pastes)

TilingSafe ==
    (mode = "tiled" /\ pc \in {"row", "tile", "return", "returned"}) =>
        /\ (font_size \in FontSizeRange /\ density \in DensityRange) =>
              spacing_x >= 30 /\ spacing_y >= 30
        /\ PlacementsInBounds
        /\ (pc \in {"return", "returned"} /\ spacing_x > 0 /\ spacing_y > 0) =>
              NoPlacementSkipped

\* C13: the tiling loop of add_tiled_watermark ends for every canvas and
\* layer size whenever the spacing is positive, which it is (30 or more)
\* for every font size in 10..200 and density in 200..1000; every placement
\* (x, y) satisfies 0 <= y < canvasH + layerH and
\* -floor(spacing / 2) <= x < canvasW + layerW; and no placement inside
\* these bounds is skipped: each row y = k * spacing < canvasH + layerH is
\* made, and in it each x = start + j * spacing < canvasW + layerW.
C13_TilingTerminatesInBounds ==
    /\ []TilingSafe
    /\ TilingRuns ~> (pc = "returned")

C13_Witness ==
    /\ mode = "tiled" /\ pc = "returned"
    /\ font_size = 25 /\ density = 232
    /\ spacing_x = 86
    /\ img_width = 600 /\ img_height = 400
    /\ Len(pastes) = 5 * 8
    /\ <<0 - 43, 86>> \in Pasted
    /\ <<602, 344>> \in Pasted

\* ------------------------------------------------------------------------
\* Channel model of the returned picture
\* ------------------------------------------------------------------------

\* C11 as stated: the picture returned by add_single_watermark and
\* add_tiled_watermark has the channel model of the source: a source without
\* an alpha channel (RGB or any other such mode) gives a result without an
\* alpha channel, a source with an alpha channel gives a result with one.
C11_SameChannelModel ==
    pc = "returned" =>
        /\ work_mode = "RGBA"
        /\ image_mode \notin AlphaModes => result_mode \notin AlphaModes
        /\ image_mode \in AlphaModes => result_mode \in AlphaModes

\* C11, amended: the working picture is always RGBA; the picture returned is
\* RGB (flattened onto white, no alpha channel) exactly when the source mode
\* is RGB, and is the RGBA working picture for every other source mode,
\* with or without an alpha channel; a source with an alpha channel so
\* gives a result with an alpha channel.
C11_RgbFlattenedElseRgba ==
    pc = "returned" =>
        /\ work_mode = "RGBA"
        /\ image_mode = "RGB" => result_mode = "RGB"
        /\ image_mode # "RGB" => result_mode = "RGBA"
        /\ image_mode \in AlphaModes => result_mode \in AlphaModes

C11_Witness ==
    /\ pc = "returned"
    /\ mode = "tiled"
    /\ image_mode = "L"
    /\ result_mode = "RGBA"
    /\ Len(pastes) > 1

\* ------------------------------------------------------------------------
\* Python strings: sequences of one-character strings
\* ------------------------------------------------------------------------
LowerChar(c) ==
    CASE c = "A" -> "a" [] c = "B" -> "b" [] c = "E" -> "e"
      [] c = "G" -> "g" [] c = "J" -> "j" [] c = "N" -> "n"
      [] c = "P" -> "p" [] OTHER -> c

lower(s) == [i \in 1..Len(s) |-> LowerChar(s[i])]

endswith(s, suffix) ==
    /\ Len(s) >= Len(suffix)
    /\ SubSeq(s, Len(s) - Len(suffix) + 1, Len(s)) = suffix

\* str.rfind for a single character: 0-based index, -1 when absent
rfind(s, c) ==
    LET hits == {i \in 1..Len(s) : s[i] = c}
    IN  IF hits = {} THEN -1
        ELSE (CHOOSE i \in hits : \A j \in hits : j <= i) - 1

\* os.path.splitext(p)[0]: the extension starts at the last dot, unless
\* only dots stand between the last separator and that dot
splitext_root(p) ==
    LET sepIndex == rfind(p, "/")
        dotIndex == rfind(p, ".")
    IN  IF /\ dotIndex > sepIndex
           /\ \E k \in (sepIndex + 1)..(dotIndex - 1) : p[k + 1] # "."
        THEN SubSeq(p, 1, dotIndex)
        ELSE p

DotPng == <<".", "p", "n", "g">>
DotJpg == <<".", "j", "p", "g">>
Watermarked == <<"_", "w", "a", "t", "e", "r", "m", "a", "r", "k", "e", "d">>

\* the case-sensitive test of the extension
is_png_case_sensitive(filename) == endswith(filename, DotPng)

\* filename.lower().endswith('.png')
is_png(filename) == endswith(lower(filename), DotPng)

save_format(filename) == IF is_png(filename) THEN "PNG" ELSE "JPEG"

new_filename(filename) ==
    splitext_root(filename) \o Watermarked
        \o (IF is_png(filename) THEN DotPng ELSE DotJpg)

\* ------------------------------------------------------------------------
\* Inputs of the script
\* ------------------------------------------------------------------------
Modes == {"RGB", "RGBA", "L"}
\* what a file holds: a picture, bytes that are no picture, or a picture
\* whose pixel data is cut short (the header opens, loading the pixels fails)
Data == {"ok", "corrupt", "truncated"}

BatchNames == {<<"a", ".", "P", "N", "G">>, <<"b", ".", "j", "p", "g">>}

UploadedFile == [name : BatchNames, data : Data]

\* two names that differ and give the same name in the archive
CollidingNames == {<<"a", ".", "P", "N", "G">>, <<"a", ".", "p", "n", "g">>}

Batches ==
    UNION {[1..n -> UploadedFile] : n \in 0..MaxFiles}
    \cup [1..2 -> [name : CollidingNames, data : {"ok"}]]

\* process_images called with these arguments
ArgSpecs ==
    {[mode |-> "single", position_key |-> "bottom_right", density |-> NoDensity,
      font_size |-> 50, opacity_value |-> 255, rotation_angle |-> 0],
     [mode |-> "single", position_key |-> None, density |-> NoDensity,
      font_size |-> 50, opacity_value |-> 255, rotation_angle |-> 0],
     [mode |-> "single", position_key |-> "center", density |-> NoDensity,
      font_size |-> 50, opacity_value |-> 300, rotation_angle |-> 270],
     [mode |-> "tiled", position_key |-> None, density |-> 400,
      font_size |-> 50, opacity_value |-> 127, rotation_angle |-> 45],
     [mode |-> "tiled", position_key |-> None, density |-> NoDensity,
      font_size |-> 50, opacity_value |-> 127, rotation_angle |-> 45],
     [mode |-> "tiled", position_key |-> None, density |-> 100,
      font_size |-> 50, opacity_value |-> 127, rotation_angle |-> 45],
     [mode |-> "tiled", position_key |-> None, density |-> 400,
      font_size |-> 0, opacity_value |-> 127, rotation_angle |-> 45]}

\* the widgets: the selectbox labels, the slider ranges
PositionLabels == {"label_bottom_right", "label_bottom_left", "label_top_right",
                   "label_top_left", "label_center"}
OpacityRange == 0..100
DensityChoices == {200, 400, 1000}
Texts == {<<>>, <<" ">>, <<"a">>}

Widgets ==
    [watermark_mode : {"single"}, watermark_text : Texts,
     opacity : OpacityRange, rotation_angle : {0}, position : PositionLabels,
     density : {NoDensity}, font_size : {50}, clicked : BOOLEAN]
    \cup
    [watermark_mode : {"tiled"}, watermark_text : Texts,
     opacity : OpacityRange, rotation_angle : {0}, position : {None},
     density : DensityChoices, font_size : {50}, clicked : BOOLEAN]

\* a script run: the widgets hold their values, at most one file is uploaded
InitScript ==
    /\ IdleMark
    /\ IdleFont
    /\ bpc = "script"
    /\ ui \in Widgets
    /\ original_image = None
    /\ uploaded_files \in {<<>>} \cup {<<f>> : f \in UploadedFile}
    /\ args = NoArgs
    /\ idx = 0
    /\ image = NoImage
    /\ processed_images = <<>>
    /\ errors = <<>>
    /\ progress = <<>>
    /\ progress_bar = <<0, 1>>
    /\ consumed = {}
    /\ zip_entries = <<>>

\* process_images called on a batch
InitProcess ==
    /\ IdleMark
    /\ IdleFont
    /\ bpc = "process_images"
    /\ ui = NoUi
    /\ original_image = None
    /\ uploaded_files \in Batches
    /\ args \in ArgSpecs
    /\ idx = 0
    /\ image = NoImage
    /\ processed_images = <<>>
    /\ errors = <<>>
    /\ progress = <<>>
    /\ progress_bar = <<0, 1>>
    /\ consumed = {}
    /\ zip_entries = <<>>

\* ------------------------------------------------------------------------
\* main and update_preview
\* ------------------------------------------------------------------------
Error(kind, name) == [kind |-> kind, name |-> name]

\* only the empty text counts as blank
IsBlank_empty_only(t) == t = <<>>

\* str.strip() leaves nothing
IsBlank(t) == \A i \in 1..Len(t) : t[i] = " "

\* position_options.get(position, "bottom_right")
position_options_get(position) ==
    CASE position = "label_bottom_right" -> "bottom_right"
      [] position = "label_bottom_left" -> "bottom_left"
      [] position = "label_top_right" -> "top_right"
      [] position = "label_top_left" -> "top_left"
      [] position = "label_center" -> "center"
      [] OTHER -> "bottom_right"

\* the conversion by rounding to the nearest integer
opacity_to_255_rounded(opacity) == (opacity * 255 + 50) \div 100

\* int(opacity * 255 / 100)
opacity_to_255(opacity) == FloatToInt(FloatDiv(opacity * 255, 100))

default_density == 400

\* the arguments main and update_preview build from the widgets
EngineArgs(w) ==
    [mode |-> w.watermark_mode,
     position_key |-> IF w.watermark_mode = "single"
                      THEN position_options_get(w.position) ELSE None,
     density |-> IF w.watermark_mode = "single" THEN NoDensity
                 ELSE IF w.density = NoDensity THEN default_density
                 ELSE w.density,
     font_size |-> w.font_size,
     opacity_value |-> opacity_to_255(w.opacity),
     rotation_angle |-> w.rotation_angle]

\* add_watermark raises whatever the picture: None / 100 is a TypeError and
\* y // 0 a ZeroDivisionError
WatermarkRaises(a) ==
    /\ a.mode # "single"
    /\ \/ a.density = NoDensity
       \/ Spacing(a.font_size, a.density) = 0

\* main: the uploaded files and the picture kept for the preview
Upload ==
    /\ bpc = "script"
    /\ IF uploaded_files = <<>>
       THEN original_image' = None /\ UNCHANGED errors
       ELSE IF uploaded_files[1].data = "ok"
       THEN original_image' = "image" /\ UNCHANGED errors
       ELSE /\ original_image' = None
            /\ errors' = Append(errors, Error("read", uploaded_files[1].name))
    /\ bpc' = "preview"
    /\ UNCHANGED <<ui, uploaded_files, args, idx, image, processed_images,
                   progress, progress_bar, consumed, zip_entries>>
    /\ UNCHANGED <<markVars, fontVars>>

\* main: the preview area, and update_preview
UpdatePreview ==
    /\ bpc = "preview"
    /\ IF original_image = None
       THEN UNCHANGED <<args, errors>>
       ELSE /\ args' = EngineArgs(ui)
            /\ errors' = IF WatermarkRaises(EngineArgs(ui))
                         THEN Append(errors, Error("preview", <<>>))
                         ELSE errors
    /\ bpc' = "button"
    /\ UNCHANGED <<ui, original_image, uploaded_files, idx, image,
                   processed_images, progress, progress_bar, consumed,
                   zip_entries>>
    /\ UNCHANGED <<markVars, fontVars>>

\* main: the button's handler up to the call of process_images
Button ==
    /\ bpc = "button"
    /\ IF ~ui.clicked
       THEN bpc' = "done" /\ UNCHANGED <<args, errors>>
       ELSE IF uploaded_files = <<>>
       THEN /\ errors' = Append(errors, Error("no_files", <<>>))
            /\ bpc' = "done"
            /\ UNCHANGED args
       ELSE IF IsBlank(ui.watermark_text)
       THEN /\ errors' = Append(errors, Error("no_text", <<>>))
            /\ bpc' = "done"
            /\ UNCHANGED args
       ELSE /\ args' = EngineArgs(ui)
            /\ bpc' = "process_images"
            /\ UNCHANGED errors
    /\ UNCHANGED <<ui, original_image, uploaded_files, idx, image,
                   processed_images, progress, progress_bar, consumed,
                   zip_entries>>
    /\ UNCHANGED <<markVars, fontVars>>

\* ------------------------------------------------------------------------
\* process_images
\* ------------------------------------------------------------------------
total_files == Len(uploaded_files)

\* where the for loop goes once the pass over file number i (0-based) ends
AfterFile(i) == IF i + 1 < total_files THEN "progress" ELSE "finish"

\* the event reported with the index as enumerate gives it
ProgressEvent_zero_based(i) ==
    [index |-> i, total |-> total_files, name |-> uploaded_files[i + 1].name]

\* the status text of file number i (0-based)
ProgressEvent(i) ==
    [index |-> i + 1, total |-> total_files, name |-> uploaded_files[i + 1].name]

\* d[k] = v on a dict: a key already there keeps its place
dict_set(d, k, v) ==
    IF \E i \in 1..Len(d) : d[i].name = k
    THEN [i \in 1..Len(d) |->
            IF d[i].name = k THEN [name |-> k, image |-> v] ELSE d[i]]
    ELSE Append(d, [name |-> k, image |-> v])

\* the except branch: st.error and continue
Fail ==
    /\ errors' = Append(errors, Error("process", uploaded_files[idx + 1].name))
    /\ bpc' = AfterFile(idx)
    /\ idx' = idx + 1

\* process_images: the empty result, the bar at 0, the loop's first test
ProcessStart ==
    /\ bpc = "process_images"
    /\ processed_images' = <<>>
    /\ progress_bar' = <<0, 1>>
    /\ idx' = 0
    /\ bpc' = IF total_files > 0 THEN "progress" ELSE "finish"
    /\ UNCHANGED <<ui, original_image, uploaded_files, args, image, errors,
                   progress, consumed, zip_entries>>
    /\ UNCHANGED <<markVars, fontVars>>

\* the progress bar and the status text of the current file
ReportProgress ==
    /\ bpc = "progress"
    /\ progress_bar' = <<idx + 1, total_files>>
    /\ progress' = Append(progress, ProgressEvent(idx))
    /\ bpc' = "read"
    /\ UNCHANGED <<ui, original_image, uploaded_files, args, idx, image,
                   processed_images, errors, consumed, zip_entries>>
    /\ UNCHANGED <<markVars, fontVars>>

\* Image.open(io.BytesIO(uploaded_file.read()))
ReadImage ==
    /\ bpc = "read"
    /\ consumed' = consumed \cup {idx + 1}
    /\ IF uploaded_files[idx + 1].data = "corrupt"
       THEN Fail /\ UNCHANGED image
       ELSE /\ \E m \in Modes : image' = [mode |-> m, loaded |-> FALSE]
            /\ bpc' = "normalize"
            /\ UNCHANGED <<errors, idx>>
    /\ UNCHANGED <<ui, original_image, uploaded_files, args, processed_images,
                   progress, progress_bar, zip_entries>>
    /\ UNCHANGED <<markVars, fontVars>>

\* an RGBA picture is flattened on white, any other non-RGB one converted
Normalize ==
    /\ bpc = "normalize"
    /\ IF image.mode = "RGB"
       THEN bpc' = "add_watermark" /\ UNCHANGED <<image, errors, idx>>
       ELSE IF uploaded_files[idx + 1].data = "truncated"
       THEN Fail /\ UNCHANGED image
       ELSE /\ image' = [mode |-> "RGB", loaded |-> TRUE]
            /\ bpc' = "add_watermark"
            /\ UNCHANGED <<errors, idx>>
    /\ UNCHANGED <<ui, original_image, uploaded_files, args, processed_images,
                   progress, progress_bar, consumed, zip_entries>>
    /\ UNCHANGED <<markVars, fontVars>>

\* the mode of the picture add_single_watermark and add_tiled_watermark return
watermarked_mode(m) == IF m = "RGB" THEN "RGB" ELSE "RGBA"

\* watermarked_image = add_watermark(...)
AddWatermark ==
    /\ bpc = "add_watermark"
    /\ IF \/ (~image.loaded /\ uploaded_files[idx + 1].data = "truncated")
          \/ WatermarkRaises(args)
       THEN Fail /\ UNCHANGED image
       ELSE /\ image' = [mode |-> watermarked_mode(image.mode), loaded |-> TRUE]
            /\ bpc' = "store"
            /\ UNCHANGED <<errors, idx>>
    /\ UNCHANGED <<ui, original_image, uploaded_files, args, processed_images,
                   progress, progress_bar, consumed, zip_entries>>
    /\ UNCHANGED <<markVars, fontVars>>

\* processed_images[uploaded_file.name] = watermarked_image
Store ==
    /\ bpc = "store"
    /\ processed_images' =
          dict_set(processed_images, uploaded_files[idx + 1].name, image)
    /\ bpc' = AfterFile(idx)
    /\ idx' = idx + 1
    /\ UNCHANGED <<ui, original_image, uploaded_files, args, image, errors,
                   progress, progress_bar, consumed, zip_entries>>
    /\ UNCHANGED <<markVars, fontVars>>

\* the bar at 1.0, the closing status text, return
Finish ==
    /\ bpc = "finish"
    /\ progress_bar' = <<1, 1>>
    /\ bpc' = "returned"
    /\ UNCHANGED <<ui, original_image, uploaded_files, args, idx, image,
                   processed_images, errors, progress, consumed, zip_entries>>
    /\ UNCHANGED <<markVars, fontVars>>

\* main: if processed_images: ... create_zip_file(processed_images)
AfterProcess ==
    /\ bpc = "returned"
    /\ bpc' = IF processed_images # <<>> THEN "create_zip_file" ELSE "done"
    /\ UNCHANGED <<ui, original_image, uploaded_files, args, idx, image,
                   processed_images, errors, progress, progress_bar, consumed,
                   zip_entries>>
    /\ UNCHANGED <<markVars, fontVars>>

\* ------------------------------------------------------------------------
\* create_zip_file
\* ------------------------------------------------------------------------
\* one pass of the loop over processed_images.items()
ZipEntry ==
    /\ bpc = "create_zip_file"
    /\ Len(zip_entries) < Len(processed_images)
    /\ LET e == processed_images[Len(zip_entries) + 1]
       IN  IF save_format(e.name) = "JPEG" /\ e.image.mode = "RGBA"
           THEN /\ bpc' = "raised"       \* cannot write mode RGBA as JPEG
                /\ UNCHANGED zip_entries
           ELSE /\ zip_entries' =
                      Append(zip_entries, [name |-> new_filename(e.name),
                                           format |-> save_format(e.name)])
                /\ UNCHANGED bpc
    /\ UNCHANGED <<ui, original_image, uploaded_files, args, idx, image,
                   processed_images, errors, progress, progress_bar, consumed>>
    /\ UNCHANGED <<markVars, fontVars>>

\* the archive is closed and returned
ZipClose ==
    /\ bpc = "create_zip_file"
    /\ Len(zip_entries) = Len(processed_images)
    /\ bpc' = "done"
    /\ UNCHANGED <<ui, original_image, uploaded_files, args, idx, image,
                   processed_images, errors, progress, progress_bar, consumed,
                   zip_entries>>
    /\ UNCHANGED <<markVars, fontVars>>

\* create_zip_file called on a result of process_images
ZipNames ==
    BatchNames \cup
    {<<"a", ".", "p", "n", "g">>, <<"a", ".", "P", "n", "G">>, <<"a", ".", "j", "p", "e", "g">>,
     <<"a", ".", "b", ".", "p", "n", "g">>, <<".", "p", "n", "g">>,
     <<"a">>, <<"a", ".">>, <<"a", "p", "n", "g">>,
     <<"a", ".", "p", "n", "g", ".", "J", "P", "G">>,
     <<".", ".", "p", "n", "g">>, <<".", "a", ".", "P", "N", "G">>}

ZipDicts ==
    {d \in UNION {[1..n -> [name : ZipNames,
                            image : {[mode |-> "RGB", loaded |-> TRUE]}]] :
                  n \in 0..2} :
        \A i, j \in 1..Len(d) : i # j => d[i].name # d[j].name}

InitZip ==
    /\ IdleMark
    /\ IdleFont
    /\ bpc = "create_zip_file"
    /\ ui = NoUi
    /\ original_image = None
    /\ uploaded_files = <<>>
    /\ args = NoArgs
    /\ idx = 0
    /\ image = NoImage
    /\ processed_images \in ZipDicts
    /\ errors = <<>>
    /\ progress = <<>>
    /\ progress_bar = <<0, 1>>
    /\ consumed = {}
    /\ zip_entries = <<>>

Init == InitScript \/ InitProcess \/ InitZip

Next ==
    \/ Upload
    \/ UpdatePreview
    \/ Button
    \/ ProcessStart
    \/ ReportProgress
    \/ ReadImage
    \/ Normalize
    \/ AddWatermark
    \/ Store
    \/ Finish
    \/ AfterProcess
    \/ ZipEntry
    \/ ZipClose

Spec == Init /\ [][Next]_vars

\* ------------------------------------------------------------------------
\* The batch (process_images, create_zip_file)
\* ------------------------------------------------------------------------
\* process_images has returned
BatchReturned ==
    /\ bpc \in {"returned", "create_zip_file", "done"}
    /\ progress_bar = <<1, 1>>
    /\ args # NoArgs

SourceFails(i) == uploaded_files[i].data # "ok" \/ WatermarkRaises(args)
Failing == {i \in 1..total_files : SourceFails(i)}
ProcessErrors == SelectSeq(errors, LAMBDA e : e.kind = "process")

\* C1: a batch with exactly one source whose decode or watermarking fails
\* and N sources that succeed does not abort: the result holds exactly N
\* entries, exactly one failure is reported, for the failing source's name,
\* and create_zip_file writes exactly N archive entries.
C1_OneFailureAmongN ==
    (bpc = "done" /\ BatchReturned /\ Cardinality(Failing) = 1) =>
        /\ Len(processed_images) = total_files - 1
        /\ Len(ProcessErrors) = 1
        /\ \A i \in Failing : ProcessErrors[1].name = uploaded_files[i].name
        /\ Len(zip_entries) = total_files - 1

\* C10 as stated: one progress event (index, total, name) per source,
\* emitted after that source has been processed, the indices rising from 1
\* to total in source order.
ProgressInOrder ==
    /\ Len(progress) <= total_files
    /\ \A k \in 1..Len(progress) :
          /\ progress[k].index = k
          /\ progress[k].total = total_files
          /\ progress[k].name = uploaded_files[k].name
    /\ BatchReturned => Len(progress) = total_files

C10_ProgressAfterProcessing ==
    /\ ProgressInOrder
    /\ Len(progress) <= idx
    /\ 1..Len(progress) \subseteq consumed

\* C10, amended: one progress event (index, total, name) per source,
\* whether it succeeds or fails, emitted before that source is read and
\* processed (and after the sources before it), the indices rising from 1
\* to total in source order.
C10_ProgressBeforeProcessing ==
    /\ ProgressInOrder
    /\ consumed \subseteq 1..Len(progress)
    /\ idx <= Len(progress) /\ Len(progress) <= idx + 1
    /\ bpc = "progress" => Len(progress) = idx
    /\ bpc = "read" => Len(progress) = idx + 1 /\ idx + 1 \notin consumed
    /\ bpc \in {"normalize", "add_watermark", "store"} =>
          Len(progress) = idx + 1 /\ idx + 1 \in consumed

C10_Witness ==
    /\ bpc = "done" /\ BatchReturned
    /\ total_files = 3
    /\ Len(progress) = 3
    /\ progress[3].index = 3
    /\ Len(ProcessErrors) = 2
    /\ Len(processed_images) = 1

\* ------------------------------------------------------------------------
\* The watermark specification
\* ------------------------------------------------------------------------
ValidSpec(a) ==
    /\ a.mode = "single" => a.position_key \in Anchors
    /\ a.mode = "tiled" => a.density # NoDensity
    /\ a.mode = "tiled" => (200 <= a.density /\ a.density <= 1000)
    /\ 0 <= a.opacity_value /\ a.opacity_value <= 255
    /\ 0 - 180 <= a.rotation_angle /\ a.rotation_angle <= 180

\* C6 as stated: an invalid specification (mode-specific parameter missing,
\* opacity, angle or density out of range) is rejected before the batch
\* starts: no source is decoded or watermarked, no result entry is produced.
C6_InvalidSpecRejected ==
    (args # NoArgs /\ ~ValidSpec(args)) =>
        /\ consumed = {}
        /\ image = NoImage
        /\ processed_images = <<>>

OkNames == {uploaded_files[i].name : i \in {j \in 1..total_files :
                                              uploaded_files[j].data = "ok"}}
ResultNames == {processed_images[i].name : i \in 1..Len(processed_images)}

\* C6, amended: an invalid specification is not rejected before the batch
\* starts. process_images reads every source of the batch whatever the
\* specification; with no anchor in single mode every decodable source
\* still gets its result entry, and with no density in tiled mode every
\* source is reported as a failure of its own and no result entry is
\* produced. Before the batch main rejects only an empty upload list and a
\* blank watermark text, and the specification it builds from the widgets
\* is valid.
C6_NoValidationBeforeBatch ==
    /\ BatchReturned =>
          /\ consumed = 1..total_files
          /\ (args.mode = "single" /\ args.position_key \notin Anchors) =>
                ResultNames = OkNames
          /\ (args.mode = "tiled" /\ args.density = NoDensity) =>
                /\ processed_images = <<>>
                /\ Len(ProcessErrors) = total_files
                /\ \A i \in 1..total_files :
                      ProcessErrors[i].name = uploaded_files[i].name
    /\ (ui # NoUi /\ args # NoArgs) => ValidSpec(args)
    /\ (ui # NoUi /\ ui.clicked /\ bpc = "done") =>
          /\ uploaded_files = <<>> =>
                ~BatchReturned /\ errors[Len(errors)].kind = "no_files"
          /\ (uploaded_files # <<>> /\ ui.watermark_text \in {<<>>, <<" ">>}) =>
                ~BatchReturned /\ errors[Len(errors)].kind = "no_text"
          /\ (uploaded_files # <<>> /\ ui.watermark_text \notin {<<>>, <<" ">>}) =>
                BatchReturned

C6_Witness ==
    /\ bpc = "done" /\ BatchReturned
    /\ ~ValidSpec(args)
    /\ args.mode = "single" /\ args.position_key = None
    /\ total_files = 3
    /\ consumed = {1, 2, 3}
    /\ Len(processed_images) = 2
    /\ Len(ProcessErrors) = 1

\* C8 as stated: the opacity value handed to the engine, on the batch path
\* and on the preview path, is the integer nearest to pct * 255 / 100.
C8_OpacityRounded ==
    (ui # NoUi /\ args # NoArgs) =>
        /\ 100 * args.opacity_value - 255 * ui.opacity <= 50
        /\ 255 * ui.opacity - 100 * args.opacity_value <= 50

\* C8, amended: the opacity value handed to the engine, on the batch path
\* and on the preview path, is floor(pct * 255 / 100): the fraction is cut
\* off, not rounded.
C8_OpacityTruncated ==
    (ui # NoUi /\ args # NoArgs) =>
        /\ 100 * args.opacity_value <= 255 * ui.opacity
        /\ 255 * ui.opacity < 100 * (args.opacity_value + 1)

C8_Witness ==
    /\ bpc = "process_images"
    /\ ui.opacity = 10
    /\ args.opacity_value = 25

\* ------------------------------------------------------------------------
\* The archive
\* ------------------------------------------------------------------------
HasPngEnding(n) ==
    /\ Len(n) >= 4
    /\ n[Len(n) - 3] = "."
    /\ n[Len(n) - 2] \in {"p", "P"}
    /\ n[Len(n) - 1] \in {"n", "N"}
    /\ n[Len(n)] \in {"g", "G"}

\* the dot that starts the last extension of n: something other than a dot
\* stands before it and no dot after it
ExtensionDots(n) ==
    {k \in 2..Len(n) : /\ n[k] = "."
                       /\ \A j \in (k + 1)..Len(n) : n[j] # "."
                       /\ \E j \in 1..(k - 1) : n[j] # "."}

StemOf(n) ==
    IF ExtensionDots(n) = {} THEN n
    ELSE SubSeq(n, 1, (CHOOSE k \in ExtensionDots(n) : TRUE) - 1)

\* C7: create_zip_file writes one archive entry for each entry of the
\* processing result and only for those (a failed source has none), named
\* {stem}_watermarked.png and encoded as PNG when the original name ends in
\* '.png' whatever the case, else named {stem}_watermarked.jpg and encoded
\* as JPEG, the stem being the original name without its last extension.
C7_ArchiveEntries ==
    /\ Len(zip_entries) <= Len(processed_images)
    /\ bpc = "done" /\ processed_images # <<>> =>
          Len(zip_entries) = Len(processed_images)
    /\ \A i \in 1..Len(zip_entries) :
          LET n == processed_images[i].name
          IN  IF HasPngEnding(n)
              THEN /\ zip_entries[i].format = "PNG"
                   /\ zip_entries[i].name =
                        StemOf(n) \o Watermarked \o <<".", "p", "n", "g">>
              ELSE /\ zip_entries[i].format = "JPEG"
                   /\ zip_entries[i].name =
                        StemOf(n) \o Watermarked \o <<".", "j", "p", "g">>
    /\ BatchReturned =>
          /\ \A i \in 1..total_files :
                (~SourceFails(i)) => uploaded_files[i].name \in ResultNames
          /\ \A n \in ResultNames :
                \E i \in 1..total_files :
                    ~SourceFails(i) /\ uploaded_files[i].name = n

C7_Witness ==
    /\ bpc = "done" /\ BatchReturned
    /\ Cardinality(Failing) = 1
    /\ Len(zip_entries) = 2
    /\ zip_entries[1] =
          [name |-> <<"a">> \o Watermarked \o <<".", "p", "n", "g">>,
           format |-> "PNG"]
    /\ processed_images[1].name = <<"a", ".", "P", "N", "G">>
    /\ zip_entries[2] =
          [name |-> <<"b">> \o Watermarked \o <<".", "j", "p", "g">>,
           format |-> "JPEG"]

\* the sources of the batch that were processed successfully
Succeeded == {i \in 1..total_files : ~SourceFails(i)}
EntriesNamed(n) == {k \in 1..Len(zip_entries) : zip_entries[k].name = n}

\* every archive entry belongs to a successful source, and the entries
\* follow their sources in the order of the batch
EntriesInBatchOrder ==
    \E f \in [1..Len(zip_entries) -> Succeeded] :
        /\ \A k \in 1..Len(zip_entries) :
              zip_entries[k].name = new_filename(uploaded_files[f[k]].name)
        /\ \A k, l \in 1..Len(zip_entries) : k < l => f[k] < f[l]

\* C12: when two sources of one batch, both processed successfully, have
\* the same derived output name (equal stem and extension, two sources of
\* the same filename included), the archive holds two entries of that name;
\* and the archive entries stand in the order in which the batch processed
\* their sources.
C12_CollidingEntriesInOrder ==
    (bpc = "done" /\ BatchReturned) =>
        /\ \A i, j \in Succeeded :
              (/\ i < j
               /\ new_filename(uploaded_files[i].name)
                     = new_filename(uploaded_files[j].name)) =>
                 Cardinality(EntriesNamed(new_filename(uploaded_files[i].name)))
                     >= 2
        /\ EntriesInBatchOrder

\* ------------------------------------------------------------------------
\* load_font
\* ------------------------------------------------------------------------
font_paths == <<"C:/Windows/Fonts/msyh.ttc", "C:/Windows/Fonts/simhei.ttf",
                "C:/Windows/Fonts/arial.ttf">>
GivenPath == "fonts/NotoSansTC-Regular.ttf"
AllFontPaths == {font_paths[i] : i \in 1..Len(font_paths)} \cup {GivenPath}

InitFont ==
    /\ IdleMark
    /\ IdleBatch
    /\ lf_pc = "load_font"
    /\ font_path \in {None, "", GivenPath}
    /\ fs_exists \in SUBSET AllFontPaths
    /\ fs_loadable \in SUBSET AllFontPaths
    /\ path_index = 0
    /\ font = None

\* the given path: used when it is set, exists and loads
TryGivenPath ==
    /\ lf_pc = "load_font"
    /\ IF /\ font_path \notin {None, ""}
          /\ font_path \in fs_exists
          /\ font_path \in fs_loadable
       THEN /\ font' = font_path
            /\ lf_pc' = "return"
            /\ UNCHANGED path_index
       ELSE /\ font' = None
            /\ path_index' = 1
            /\ lf_pc' = "system"
    /\ UNCHANGED <<font_path, fs_exists, fs_loadable>>
    /\ UNCHANGED <<markVars, batchVars>>

\* the loop going on after a font has loaded
TrySystemFont_without_break ==
    /\ lf_pc = "system"
    /\ path_index <= Len(font_paths)
    /\ font' = IF /\ font_paths[path_index] \in fs_exists
                  /\ font_paths[path_index] \in fs_loadable
               THEN font_paths[path_index] ELSE font
    /\ path_index' = path_index + 1
    /\ UNCHANGED <<lf_pc, font_path, fs_exists, fs_loadable>>
    /\ UNCHANGED <<markVars, batchVars>>

\* one pass of the loop over font_paths
TrySystemFont ==
    /\ lf_pc = "system"
    /\ path_index <= Len(font_paths)
    /\ IF /\ font_paths[path_index] \in fs_exists
          /\ font_paths[path_index] \in fs_loadable
       THEN /\ font' = font_paths[path_index]
            /\ lf_pc' = "fallback"       \* break
            /\ UNCHANGED path_index
       ELSE /\ path_index' = path_index + 1   \* not there, or except: continue
            /\ UNCHANGED <<font, lf_pc>>
    /\ UNCHANGED <<font_path, fs_exists, fs_loadable>>
    /\ UNCHANGED <<markVars, batchVars>>

\* the list is used up
SystemFontsDone ==
    /\ lf_pc = "system"
    /\ path_index > Len(font_paths)
    /\ lf_pc' = "fallback"
    /\ UNCHANGED <<font_path, fs_exists, fs_loadable, path_index, font>>
    /\ UNCHANGED <<markVars, batchVars>>

\* if font is None: font = ImageFont.load_default(); return font
DefaultFont ==
    /\ lf_pc = "fallback"
    /\ font' = IF font = None THEN "default" ELSE font
    /\ lf_pc' = "return"
    /\ UNCHANGED <<font_path, fs_exists, fs_loadable, path_index>>
    /\ UNCHANGED <<markVars, batchVars>>

NextFont ==
    \/ TryGivenPath
    \/ TrySystemFont
    \/ SystemFontsDone
    \/ DefaultFont

SpecFont == InitFont /\ [][NextFont]_vars

Usable(path) == path \in fs_exists /\ path \in fs_loadable
UsableSystemFonts == {i \in 1..Len(font_paths) : Usable(font_paths[i])}

\* C9: load_font always returns a font and never raises: the font of the
\* given path when that path is given, exists and loads; otherwise the first
\* font of the system list, in list order, that exists and loads (one that
\* fails to load is passed over); otherwise the built-in default font.
C9_FontResolved ==
    /\ lf_pc \in {"load_font", "system", "fallback"} => ENABLED NextFont
    /\ path_index <= Len(font_paths) + 1
    /\ lf_pc = "return" =>
          /\ font # None
          /\ IF font_path = GivenPath /\ Usable(GivenPath)
             THEN font = GivenPath
             ELSE IF UsableSystemFonts # {}
             THEN \E i \in UsableSystemFonts :
                     /\ font = font_paths[i]
                     /\ \A j \in UsableSystemFonts : i <= j
             ELSE font = "default"

C9_Witness ==
    /\ lf_pc = "return"
    /\ font_path = GivenPath
    /\ GivenPath \in fs_exists /\ GivenPath \notin fs_loadable
    /\ font_paths[1] \in fs_exists /\ font_paths[1] \notin fs_loadable
    /\ font_paths[2] \in fs_exists /\ font_paths[2] \in fs_loadable
    /\ font_paths[3] \in fs_exists /\ font_paths[3] \in fs_loadable
    /\ font = font_paths[2]

====
